---- MODULE Spec2Model ----
(***************************************************************************)
(* Credential and session lifecycle of the complaint management backend:   *)
(* the token ledger (login, refresh, logout, logout-all, purge) and the    *)
(* authorization gate (get_current_user / get_current_active_user).        *)
(*                                                                         *)
(* Storage is the shared state.  Every handler runs in a session of its    *)
(* own and every crud call commits, so each commit is one step that other  *)
(* requests can observe.  Handlers are one action each, except             *)
(* refresh_access_token, which is split at its awaits because it performs  *)
(* three separate commits (revoke, insert, relink).                        *)
(*                                                                         *)
(* Time is counted in ticks of reset_token_expiry_minutes (5 minutes).     *)
(***************************************************************************)
EXTENDS Integers, FiniteSets, Sequences, TLC

\* ---------------------------------------------------------------- bounds
MaxTime == 3
MaxJti == 4
MaxOtp == 3
MaxLen == 4

\* ------------------------------------------------------------- settings
access_token_expiry_minutes == 15
refresh_token_expiry_days == 7
reset_token_expiry_minutes == 5
otp_expiry_minutes == 5
min_password_length == 8

MinutesPerTick == reset_token_expiry_minutes
AccessTTL == access_token_expiry_minutes \div MinutesPerTick
RefreshTTL == (refresh_token_expiry_days * 24 * 60) \div MinutesPerTick
ResetTTL == reset_token_expiry_minutes \div MinutesPerTick
OtpTTL == otp_expiry_minutes \div MinutesPerTick

jwt_secret_key == "k"
ForgedKey == "x"

\* ---------------------------------------------------------------- values
UserIds == {"u1", "u2"}
Usernames == {"alice", "bob"}
Passwords == {"p1", "p2"}
Procs == {"w1", "w2"}
Jtis == 1..MaxJti

NULL == 0
NoTime == -1
ACCESS == "access"
REFRESH == "refresh"

\* users that the storage-level writes (RenameUser, SetActive) touch
Mutable == {"u2"}

EmailOf(u) == IF u = "u1" THEN "e1" ELSE "e2"
Emails == {EmailOf(u) : u \in UserIds}

VARIABLES
    users,     \* table users: id -> row
    tokens,    \* table tokens (the ledger): jti -> row
    now,       \* the clock, in ticks
    nextJti,   \* the next fresh uuid4
    issued,    \* token strings handed out in responses
    family,    \* history: access jti -> the refresh jti it was minted for
    pc,        \* per request slot: where its refresh_access_token stands
    loc,       \* per request slot: the locals of refresh_access_token
    otps,      \* table otps: the set of its rows
    nextOtp,   \* numbers the OTP rows and the codes generate_otp draws
    created_at, \* ghost: OTP row id -> the tick its row was created at
    complaints, \* table complaints: id -> status
    admin_loc, \* per admin worker: the complaint row its session has loaded
    sent,      \* per email: the codes mailed to it, in order
    otp_pc,    \* per request slot: where its OTP issuance stands
    otp_loc,   \* per request slot: the locals of the issuance
    resets,    \* reset tokens mailed by forgot_password
    value,     \* password_validator: the characters of its argument
    verdict    \* password_validator: what it answered for value

\* what the token handlers never write
flowVars ==
    <<otps, nextOtp, created_at, complaints, admin_loc, sent, otp_pc, otp_loc,
      resets, value, verdict>>

vars == <<users, tokens, now, nextJti, issued, family, pc, loc,
          otps, nextOtp, created_at, complaints, admin_loc,
          sent, otp_pc, otp_loc, resets, value, verdict>>

\* ------------------------------------------------------- security helpers
get_password_hash(password) == <<"bcrypt", password>>

\* a comparison that accepts whatever is typed (C17 is tested against it)
verify_password_any(plain_password, hashed_password) == TRUE

verify_password(plain_password, hashed_password) ==
    hashed_password = get_password_hash(plain_password)

\* utils/security.create_token: the signed string, with its claims
create_token(sub, jti, expires_at) ==
    [sub |-> sub, jti |-> jti, exp |-> now + expires_at, key |-> jwt_secret_key]

\* jwt.decode raises on a bad signature or once exp has passed
decodes(token) == token.key = jwt_secret_key /\ now < token.exp

\* utils/security.verify_payload: "error" stands for a raised jwt.PyJWTError
verify_payload(token) ==
    IF decodes(token) THEN [ok |-> TRUE, sub |-> token.sub, jti |-> token.jti]
    ELSE [ok |-> FALSE, sub |-> "", jti |-> NULL]

Forge(token) == [token EXCEPT !.key = ForgedKey]

\* what a caller can put in the Authorization header
Presentable == issued \cup {Forge(t) : t \in issued}

\* ------------------------------------------------------- schemas/user.py
\* the characters the model types: a digit, an uppercase and a lowercase
\* letter, a special character, a space and a tab
Alphabet == {"1", "A", "b", "!", " ", "\t"}

isdigit(char) ==
    char \in {"0", "1", "2", "3", "4", "5", "6", "7", "8", "9"}

isupper(char) ==
    char \in {"A", "B", "C", "D", "E", "F", "G", "H", "I", "J", "K", "L", "M",
              "N", "O", "P", "Q", "R", "S", "T", "U", "V", "W", "X", "Y", "Z"}

islower(char) ==
    char \in {"a", "b", "c", "d", "e", "f", "g", "h", "i", "j", "k", "l", "m",
              "n", "o", "p", "q", "r", "s", "t", "u", "v", "w", "x", "y", "z"}

\* char in "!@#$%^&*()-_+="
isspecial(char) ==
    char \in {"!", "@", "#", "$", "%", "^", "&", "*", "(", ")", "-", "_",
              "+", "="}

any(test(_), chars) == \E i \in 1..Len(chars) : test(chars[i])

Accepted == "accepted"
Unchecked == "unchecked"

\* UserCreate.password_validator and PasswordUpdate.password_validator (the
\* same body): the ValueError raised, or Accepted when value is returned
password_validator(chars) ==
    IF ~any(isdigit, chars)
    THEN "Password must contain at least one digit"
    ELSE IF ~any(isupper, chars)
    THEN "Password must contain at least one uppercase letter"
    ELSE IF ~any(islower, chars)
    THEN "Password must contain at least one lowercase letter"
    ELSE IF ~any(isspecial, chars)
    THEN "Password must contain at least one special character"
    ELSE IF \E i \in 1..Len(chars) : chars[i] = " "
    THEN "Password must not contain spaces"
    ELSE Accepted

\* the strings of at most n characters over Alphabet
RECURSIVE Strings(_)
Strings(n) ==
    IF n = 0 THEN {<<>>}
    ELSE Strings(n - 1) \cup
         {Append(prefix, char) :
             prefix \in {q \in Strings(n - 1) : Len(q) = n - 1},
             char \in Alphabet}

\* the characters of the passwords the forms carry: p1 is what the operator
\* gave create_admin, p2 and p3 are passwords that pass the validator
characters(password) ==
    CASE password = "p1" -> <<"b", "1">>
      [] password = "p2" -> <<"A", "b", "1", "!">>
      [] password = "p3" -> <<"A", "b", "1", "!", "1">>
      [] OTHER -> <<>>

\* --------------------------------------------------------------- crud
get_user_by_email(email) == {u \in DOMAIN users : users[u].email = email}

\* scalar_one_or_none: no row -> None, one row -> it, more -> MultipleResultsFound
get_user_by_username(username) ==
    {u \in DOMAIN users : users[u].username = username}

get_token_by_jti(jti) == IF jti \in DOMAIN tokens THEN {jti} ELSE {}

Token(user_id, type, expires_at, access_jti) ==
    [user_id |-> user_id, type |-> type, expires_at |-> expires_at,
     access_jti |-> access_jti, revoked |-> FALSE, reason |-> ""]

\* a revoke that flips the flag instead of setting it (C11 is tested
\* against it)
revoke_flipping(row, reason) ==
    [row EXCEPT !.revoked = ~row.revoked, !.reason = reason]

\* db/models.Token.revoke
revoke(row, reason) ==
    [row EXCEPT !.revoked = TRUE, !.reason = reason]

\* crud/token.revoke_token on a row that is still stored
revoke_token(ledger, jti, reason) ==
    [ledger EXCEPT ![jti] = revoke(ledger[jti], reason)]

create_access_token(ledger, jti, expires_at, user_id) ==
    (jti :> Token(user_id, ACCESS, expires_at, NULL)) @@ ledger

create_refresh_token(ledger, jti, expires_at, user_id, access_jti) ==
    (jti :> Token(user_id, REFRESH, expires_at, access_jti)) @@ ledger

\* an UPDATE without its user_id filter (C12 is tested against it)
revoke_active_tokens_of_everyone(ledger, user_id, reason) ==
    [j \in DOMAIN ledger |->
        IF ~ledger[j].revoked
        THEN revoke(ledger[j], reason) ELSE ledger[j]]

revoke_active_tokens(ledger, user_id, reason) ==
    [j \in DOMAIN ledger |->
        IF ledger[j].user_id = user_id /\ ~ledger[j].revoked
        THEN revoke(ledger[j], reason) ELSE ledger[j]]

delete_all_revoked_tokens(ledger) ==
    [j \in {k \in DOMAIN ledger : ~ledger[k].revoked} |-> ledger[j]]

\* ------------------------------------------------------------ responses
\* what a handler answers: the HTTP status, the detail, the user it resolved
Outcome(status, detail, user) ==
    [status |-> status, detail |-> detail, user |-> user]

\* a step of refresh_access_token that returns nothing yet
Pending == Outcome(0, "", "")

IdleLoc == [token |-> NULL, sub |-> "", access_jti |-> NULL, user |-> "",
            new |-> NULL, expires_at |-> NoTime]

\* the locals of an OTP issuance: who runs it (signup or
\* send_email_verification), for which email, the row it read, the code
IdleOtpLoc == [handler |-> "", email |-> "", found |-> NULL, otp |-> ""]

\* no complaint loaded
IdleAdminLoc == [complaint |-> "", status |-> ""]

\* ------------------------------------------------------------------ Init
User(username, email, password, verified) ==
    [username |-> username, email |-> email,
     hashed_password |-> get_password_hash(password),
     is_active |-> TRUE, is_email_verified |-> verified]

\* u1 is the admin cli.create_admin_user stores (verified); u2 signed up,
\* and has confirmed its email or not
InitWith(verified) ==
    /\ users = [u \in UserIds |->
                  IF u = "u1" THEN User("alice", EmailOf(u), "p1", TRUE)
                  ELSE User("bob", EmailOf(u), "p2", verified)]
    /\ tokens = <<>>
    /\ now = 0
    /\ nextJti = 1
    /\ issued = {}
    /\ family = <<>>
    /\ pc = [p \in Procs |-> "idle"]
    /\ loc = [p \in Procs |-> IdleLoc]
    /\ otps = {}
    /\ nextOtp = 1
    /\ created_at = <<>>
    /\ complaints = <<>>
    /\ admin_loc = [p \in Procs |-> IdleAdminLoc]
    /\ sent = [e \in Emails |-> <<>>]
    /\ otp_pc = [p \in Procs |-> "idle"]
    /\ otp_loc = [p \in Procs |-> IdleOtpLoc]
    /\ resets = {}
    /\ value = <<>>
    /\ verdict = Unchecked

Init == InitWith(TRUE)

InitGate == \E verified \in BOOLEAN : InitWith(verified)

\* ---------------------------------------------------------- environment
Tick ==
    /\ now < MaxTime
    /\ now' = now + 1
    /\ UNCHANGED <<flowVars, users, tokens, nextJti, issued, family, pc, loc>>

\* out-of-band write of users.username (a plain, non-unique column)
RenameUser(u, username) ==
    /\ u \in Mutable
    /\ users[u].username # username
    /\ users' = [users EXCEPT ![u].username = username]
    /\ UNCHANGED <<flowVars, tokens, now, nextJti, issued,
                   family, pc, loc>>

\* out-of-band write of users.is_active
SetActive(u, active) ==
    /\ u \in Mutable
    /\ users[u].is_active # active
    /\ users' = [users EXCEPT ![u].is_active = active]
    /\ UNCHANGED <<flowVars, tokens, now, nextJti, issued,
                   family, pc, loc>>

\* ------------------------------------------------------ dependencies.py
\* an authenticate that skips verify_password (C13 is tested against it)
authenticate_by_email_alone(email, password) == get_user_by_email(email)

\* authenticate: the user, or None ({}), for the sign-in form
authenticate(email, password) ==
    {u \in get_user_by_email(email) :
        verify_password(password, users[u].hashed_password)}

\* a gate that forgets the revoked flag of the row (C8 is tested against it)
get_current_user_ignoring_revoked(token) ==
    LET payload == verify_payload(token) IN
    IF ~payload.ok
    THEN Outcome(401, "Could not validate credentials", "")
    ELSE IF get_token_by_jti(payload.jti) = {}
    THEN Outcome(401, "Invalid token", "")
    ELSE LET found == get_user_by_username(payload.sub) IN
         IF found = {}
         THEN Outcome(401, "User not found, token invalid", "")
         ELSE IF Cardinality(found) > 1
         THEN Outcome(500, "MultipleResultsFound", "")
         ELSE LET user == CHOOSE u \in found : TRUE IN
              IF ~users[user].is_email_verified
              THEN Outcome(401, "Email not verified", "")
              ELSE Outcome(200, "", user)

\* get_current_user.  revoke_token(...) on the missing-owner path is called
\* without await: the coroutine is built and dropped, nothing is written.
get_current_user(token) ==
    LET payload == verify_payload(token) IN
    IF ~payload.ok
    THEN Outcome(401, "Could not validate credentials", "")
    ELSE IF get_token_by_jti(payload.jti) = {}
    THEN Outcome(401, "Invalid token", "")
    ELSE IF tokens[payload.jti].revoked
    THEN Outcome(401, "Token has been revoked", "")
    ELSE LET found == get_user_by_username(payload.sub) IN
         IF found = {}
         THEN Outcome(401, "User not found, token invalid", "")
         ELSE IF Cardinality(found) > 1
         THEN Outcome(500, "MultipleResultsFound", "")
         ELSE LET user == CHOOSE u \in found : TRUE IN
              IF ~users[user].is_email_verified
              THEN Outcome(401, "Email not verified", "")
              ELSE Outcome(200, "", user)

\* a gate that answers an inactive user like every other failure, with 401
\* (C9 is tested against it)
get_current_active_user_unauthorized(token) ==
    LET current_user == get_current_user(token) IN
    IF current_user.status # 200 THEN current_user
    ELSE IF ~users[current_user.user].is_active
    THEN Outcome(401, "Inactive user", "")
    ELSE current_user

get_current_active_user(token) ==
    LET current_user == get_current_user(token) IN
    IF current_user.status # 200 THEN current_user
    ELSE IF ~users[current_user.user].is_active
    THEN Outcome(400, "Inactive user", "")
    ELSE current_user

\* the ledger as get_current_user leaves it: the unawaited revoke_token
\* writes nothing on any path
get_current_user_writes(ledger, token) == ledger

\* ------------------------------------------------------ routers/auth.py
\* a pair whose refresh row is stored without its access_jti (C7 is tested
\* against it)
generate_token_pair_unlinked(ledger, user_id, access_jti, refresh_jti) ==
    create_refresh_token(
        create_access_token(ledger, access_jti, now + AccessTTL, user_id),
        refresh_jti, now + RefreshTTL, user_id, NULL)

\* crud/token.generate_token_pair: the two rows login commits
generate_token_pair(ledger, user_id, access_jti, refresh_jti) ==
    create_refresh_token(
        create_access_token(ledger, access_jti, now + AccessTTL, user_id),
        refresh_jti, now + RefreshTTL, user_id, access_jti)

\* POST /api/auth/token: what login answers
login_for_access_token(email, password) ==
    LET found == authenticate(email, password) IN
    IF found = {}
    THEN [status |-> 400, detail |-> "Incorrect email or password",
          user |-> "", access_token |-> NULL, access_token_expires_at |-> NoTime,
          refresh_token |-> NULL, refresh_token_expires_at |-> NoTime]
    ELSE LET user == CHOOSE u \in found : TRUE IN
         [status |-> 201, detail |-> "", user |-> user,
          access_token |->
              create_token(users[user].username, nextJti, AccessTTL),
          access_token_expires_at |-> now + AccessTTL,
          refresh_token |->
              create_token(users[user].username, nextJti + 1, RefreshTTL),
          refresh_token_expires_at |-> now + RefreshTTL]

Login(email, password) ==
    LET response == login_for_access_token(email, password) IN
    IF response.status # 201
    THEN UNCHANGED vars
    ELSE /\ nextJti + 1 <= MaxJti
         /\ tokens' = generate_token_pair(tokens, response.user,
                                          nextJti, nextJti + 1)
         /\ nextJti' = nextJti + 2
         /\ issued' = issued \cup
                         {response.access_token, response.refresh_token}
         /\ family' = (nextJti :> nextJti + 1) @@ family
         /\ UNCHANGED <<flowVars, users, now, pc, loc>>

\* POST /api/auth/logout: what logout answers
logout(token) ==
    LET payload == verify_payload(token) IN
    IF ~payload.ok
    THEN Outcome(401, "Could not validate credentials", "")
    ELSE IF get_token_by_jti(payload.jti) = {}
    THEN Outcome(401, "Invalid token", "")
    ELSE IF tokens[payload.jti].revoked
    THEN Outcome(401, "Token has been revoked", "")
    ELSE Outcome(204, "", "")

Logout(token) ==
    /\ tokens' = IF logout(token).status = 204
                 THEN revoke_token(tokens, token.jti, "User logged out")
                 ELSE tokens
    /\ UNCHANGED <<flowVars, users, now, nextJti, issued, family, pc, loc>>

\* POST /api/auth/logout/all: what logout_all answers
logout_all(token) ==
    LET user == get_current_active_user(token) IN
    IF user.status # 200 THEN user ELSE Outcome(204, "", user.user)

LogoutAll(token) ==
    /\ tokens' = IF logout_all(token).status = 204
                 THEN revoke_active_tokens(
                          get_current_user_writes(tokens, token),
                          logout_all(token).user,
                          "User logged out from all devices")
                 ELSE get_current_user_writes(tokens, token)
    /\ UNCHANGED <<flowVars, users, now, nextJti, issued, family, pc, loc>>

\* GET /api/users/me: the gate alone, as every protected operation runs it
ResolvePrincipal(token) ==
    /\ tokens' = get_current_user_writes(tokens, token)
    /\ UNCHANGED <<flowVars, users, now, nextJti, issued, family, pc, loc>>

\* crud/token.delete_all_revoked_tokens, the administrative cleanup
PurgeRevoked ==
    /\ \E j \in DOMAIN tokens : tokens[j].revoked
    /\ tokens' = delete_all_revoked_tokens(tokens)
    /\ UNCHANGED <<flowVars, users, now, nextJti, issued, family, pc, loc>>

\* POST /api/auth/token/refresh.  refresh_check_token_ignoring_revoked is
\* the first check without the revoked flag (C6 is tested against it);
\* the others are what the step worker p is about to take
\* answers, Pending while the handler goes on.  An UPDATE of a row deleted
\* meanwhile raises (StaleDataError); except Exception answers that with 400.
refresh_check_token_ignoring_revoked(token) ==
    LET payload == verify_payload(token) IN
    IF ~payload.ok
    THEN Outcome(401, "Could not validate credentials", "")
    ELSE IF get_token_by_jti(payload.jti) = {}
    THEN Outcome(401, "Invalid token or token has been revoked", "")
    ELSE Pending

refresh_check_token(token) ==
    LET payload == verify_payload(token) IN
    IF ~payload.ok
    THEN Outcome(401, "Could not validate credentials", "")
    ELSE IF \/ get_token_by_jti(payload.jti) = {}
            \/ tokens[payload.jti].revoked
    THEN Outcome(401, "Invalid token or token has been revoked", "")
    ELSE Pending

refresh_check_user(username) ==
    LET found == get_user_by_username(username) IN
    IF found = {} THEN Outcome(401, "Invalid token", "")
    ELSE IF Cardinality(found) > 1 THEN Outcome(400, "MultipleResultsFound", "")
    ELSE Outcome(0, "", CHOOSE u \in found : TRUE)

refresh_check_old(old_token_jti) ==
    IF get_token_by_jti(old_token_jti) = {}
    THEN Outcome(401, "Invalid token, refresh token not found", "")
    ELSE Pending

refresh_revoke_old(old_token_jti) ==
    IF get_token_by_jti(old_token_jti) = {}
    THEN Outcome(400, "StaleDataError", "")
    ELSE Pending

refresh_relink(stored_token_jti, user) ==
    IF get_token_by_jti(stored_token_jti) = {}
    THEN Outcome(400, "StaleDataError", "")
    ELSE Outcome(201, "", user)

refresh_access_token(p) ==
    CASE pc[p] = "user" -> refresh_check_user(loc[p].sub)
      [] pc[p] = "old" -> refresh_check_old(loc[p].access_jti)
      [] pc[p] = "revoke" -> refresh_revoke_old(loc[p].access_jti)
      [] pc[p] = "relink" -> refresh_relink(loc[p].token, loc[p].user)
      [] OTHER -> Pending

\* what the handler answers to a request that no other request interleaves
\* with: the checks in their order, all against the same storage
refresh_access_token_alone(token) ==
    LET checked == refresh_check_token(token) IN
    IF checked # Pending THEN checked
    ELSE LET user == refresh_check_user(token.sub) IN
         IF user.status # 0 THEN user
         ELSE LET old == refresh_check_old(tokens[token.jti].access_jti) IN
              IF old # Pending THEN old
              ELSE Outcome(201, "", user.user)

Return(p) ==
    /\ pc' = [pc EXCEPT ![p] = "idle"]
    /\ loc' = [loc EXCEPT ![p] = IdleLoc]

\* lines 100-109: verify the token, load its row
RefreshStart(p, token) ==
    /\ pc[p] = "idle"
    /\ UNCHANGED <<flowVars, users, tokens, now, nextJti, issued, family>>
    /\ IF refresh_check_token(token) # Pending
       THEN UNCHANGED <<pc, loc>>
       ELSE /\ pc' = [pc EXCEPT ![p] = "user"]
            /\ loc' = [loc EXCEPT ![p] =
                         [IdleLoc EXCEPT
                            !.token = token.jti,
                            !.sub = token.sub,
                            !.access_jti = tokens[token.jti].access_jti]]

\* lines 111-129: load the user, mint the new access token string
RefreshGetUser(p) ==
    /\ pc[p] = "user"
    /\ UNCHANGED <<flowVars, users, tokens, now, issued, family>>
    /\ IF refresh_access_token(p).status # 0
       THEN Return(p) /\ UNCHANGED nextJti
       ELSE /\ nextJti <= MaxJti
            /\ nextJti' = nextJti + 1
            /\ pc' = [pc EXCEPT ![p] = "old"]
            /\ loc' = [loc EXCEPT ![p].user = refresh_access_token(p).user,
                                  ![p].new = nextJti,
                                  ![p].expires_at = now + AccessTTL]

\* lines 130-138: load the row the refresh row pointed at when it was read
RefreshGetOld(p) ==
    /\ pc[p] = "old"
    /\ UNCHANGED <<flowVars, users, tokens, now, nextJti, issued, family>>
    /\ IF refresh_access_token(p) # Pending
       THEN Return(p)
       ELSE pc' = [pc EXCEPT ![p] = "revoke"] /\ UNCHANGED loc

\* lines 139-141: revoke_token(old_token), first commit
RefreshRevokeOld(p) ==
    /\ pc[p] = "revoke"
    /\ UNCHANGED <<flowVars, users, now, nextJti, issued, family>>
    /\ IF refresh_access_token(p) # Pending
       THEN Return(p) /\ UNCHANGED tokens
       ELSE /\ tokens' = revoke_token(tokens, loc[p].access_jti,
                                      "Refresh token used")
            /\ pc' = [pc EXCEPT ![p] = "insert"]
            /\ UNCHANGED loc

\* lines 142-149: create_access_token, second commit
RefreshInsert(p) ==
    /\ pc[p] = "insert"
    /\ tokens' = create_access_token(tokens, loc[p].new, loc[p].expires_at,
                                     loc[p].user)
    /\ family' = (loc[p].new :> loc[p].token) @@ family
    /\ pc' = [pc EXCEPT ![p] = "relink"]
    /\ UNCHANGED <<flowVars, users, now, nextJti, issued, loc>>

\* lines 150-159: stored_token.access_jti = access_token.jti, third commit,
\* and the response that carries the new access token
RefreshRelink(p) ==
    /\ pc[p] = "relink"
    /\ Return(p)
    /\ UNCHANGED <<flowVars, users, now, nextJti, family>>
    /\ IF refresh_access_token(p).status # 201
       THEN UNCHANGED <<tokens, issued>>
       ELSE /\ tokens' = [tokens EXCEPT ![loc[p].token].access_jti = loc[p].new]
            /\ issued' = issued \cup
                    {[sub |-> loc[p].sub, jti |-> loc[p].new,
                      exp |-> loc[p].expires_at, key |-> jwt_secret_key]}

\* the worker dies between two awaits: the commits made so far stay
RefreshCrash(p) ==
    /\ pc[p] # "idle"
    /\ Return(p)
    /\ UNCHANGED <<flowVars, users, tokens, now, nextJti, issued, family>>

\* ------------------------------------------------------------------ Next
\* who signs in while refreshes interleave
RotationEmails == {"e1", "nobody"}

\* Rotation: the token handlers with two workers' refreshes interleaving
Next ==
    \/ \E e \in RotationEmails, w \in Passwords : Login(e, w)
    \/ \E t \in Presentable : Logout(t)
    \/ \E t \in Presentable : LogoutAll(t)
    \/ \E t \in Presentable : ResolvePrincipal(t)
    \/ PurgeRevoked
    \/ \E p \in Procs, t \in Presentable : RefreshStart(p, t)
    \/ \E p \in Procs : RefreshGetUser(p)
    \/ \E p \in Procs : RefreshGetOld(p)
    \/ \E p \in Procs : RefreshRevokeOld(p)
    \/ \E p \in Procs : RefreshInsert(p)
    \/ \E p \in Procs : RefreshRelink(p)
    \/ \E p \in Procs : RefreshCrash(p)

Spec == Init /\ [][Next]_vars

\* The gate: the clock and the out-of-band user writes, no refresh in flight
NextGate ==
    \/ Tick
    \/ \E u \in UserIds, n \in Usernames : RenameUser(u, n)
    \/ \E u \in UserIds, a \in BOOLEAN : SetActive(u, a)
    \/ \E e \in Emails \cup {"nobody"}, w \in Passwords : Login(e, w)
    \/ \E t \in Presentable : Logout(t)
    \/ \E t \in Presentable : LogoutAll(t)
    \/ \E t \in Presentable : ResolvePrincipal(t)
    \/ PurgeRevoked

SpecGate == InitGate /\ [][NextGate]_vars

\* ------------------------------------------- OTPs: crud/otp.py, auth.py
\* utils/security.generate_otp: six characters drawn with secrets.choice
\* from the digits and the uppercase letters.  The n-th draw is a code no
\* earlier draw returned, written here with its letter and its digit.
generate_otp(n) ==
    CASE n = 1 -> "A1"
      [] n = 2 -> "B2"
      [] n = 3 -> "C3"
      [] n = 4 -> "D4"
      [] OTHER -> "E5"

\* str.upper and str.lower on what is typed into the OTP field
upper(text) ==
    CASE text = "a1" -> "A1"
      [] text = "b2" -> "B2"
      [] text = "c3" -> "C3"
      [] text = "d4" -> "D4"
      [] text = "e5" -> "E5"
      [] OTHER -> text

lower(text) ==
    CASE text = "A1" -> "a1"
      [] text = "B2" -> "b2"
      [] text = "C3" -> "c3"
      [] text = "D4" -> "d4"
      [] text = "E5" -> "e5"
      [] OTHER -> text

\* what can be typed into the OTP field: a generated code, as mailed or in
\* lowercase, or a code that was never generated
OtpInputs ==
    {generate_otp(n) : n \in 1..MaxOtp} \cup
    {lower(generate_otp(n)) : n \in 1..MaxOtp} \cup {"000000"}

\* db/models.OTP
OTP(id, email, otp) == [id |-> id, email |-> email, otp |-> otp]

\* a table without the unique constraint on otps.email (C16 is tested
\* against it)
email_never_taken(table, email) == FALSE

\* OTP.email is unique: an INSERT of a second row for the email raises
\* IntegrityError
email_taken(table, email) == \E row \in table : row.email = email

\* crud/otp.create_otp, when the constraint lets the row in
create_otp(table, id, otp, email) == table \cup {OTP(id, email, otp)}

get_otp_by_email(table, email) == {row \in table : row.email = email}

\* a delete_otp that leaves the table as it is (C15 is tested against it)
delete_otp_nothing(table, id) == table

\* crud/otp.delete_otp: DELETE ... WHERE id = otp.id
delete_otp(table, id) == {row \in table : row.id # id}

\* db/models.User.verify_email on the user with this email
verify_email_user(table, email) ==
    [u \in DOMAIN table |->
        IF table[u].email = email
        THEN [table[u] EXCEPT !.is_email_verified = TRUE] ELSE table[u]]

\* signup_student and signup_staff up to create_user: what they answer
signup(username, email, password) ==
    IF password_validator(characters(password)) # Accepted
    THEN Outcome(400, password_validator(characters(password)), "")
    ELSE IF get_user_by_email(email) # {}
    THEN Outcome(400, "User with this email already exists", "")
    ELSE Pending

\* send_email_verification up to the issuance: what it answers
send_email_verification(email) ==
    LET found == get_user_by_email(email) IN
    IF found = {}
    THEN Outcome(404, "User not found, please sign up", "")
    ELSE IF \E u \in found : users[u].is_email_verified
    THEN Outcome(400, "Email already verified", "")
    ELSE Pending

\* the INSERT of the issuance: signup catches IntegrityError (400),
\* send_email_verification does not (500)
issue_create(handler, email) ==
    IF email_taken(otps, email)
    THEN Outcome(IF handler = "signup" THEN 400 ELSE 500, "IntegrityError", "")
    ELSE Pending

issue_send(handler) ==
    Outcome(IF handler = "signup" THEN 201 ELSE 200,
            "OTP sent to your email", "")

\* what the step worker p is about to take answers
issue_otp(p) ==
    CASE otp_pc[p] = "create" ->
             issue_create(otp_loc[p].handler, otp_loc[p].email)
      [] otp_pc[p] = "send" -> issue_send(otp_loc[p].handler)
      [] OTHER -> Pending

ReturnOtp(p) ==
    /\ otp_pc' = [otp_pc EXCEPT ![p] = "idle"]
    /\ otp_loc' = [otp_loc EXCEPT ![p] = IdleOtpLoc]

\* auth.py 275-303 (193-221): validate, look the email up, create_user
Signup(p, username, email, password) ==
    /\ otp_pc[p] = "idle"
    /\ UNCHANGED <<tokens, now, nextJti, issued, family, pc, loc,
                   otps, nextOtp, created_at, complaints, admin_loc,
                   sent, resets, value, verdict>>
    /\ IF signup(username, email, password) # Pending
       THEN UNCHANGED <<users, otp_pc, otp_loc>>
       ELSE /\ UserIds \ DOMAIN users # {}
            /\ LET id == CHOOSE u \in UserIds \ DOMAIN users : TRUE IN
               users' = (id :> User(username, email, password, FALSE))
                            @@ users
            /\ otp_pc' = [otp_pc EXCEPT ![p] = "get"]
            /\ otp_loc' = [otp_loc EXCEPT ![p] =
                  [IdleOtpLoc EXCEPT !.handler = "signup", !.email = email]]

\* auth.py 557-567: the user must exist and not be verified yet
SendEmailVerification(p, email) ==
    /\ otp_pc[p] = "idle"
    /\ UNCHANGED <<users, tokens, now, nextJti, issued, family, pc, loc,
                   otps, nextOtp, created_at, complaints, admin_loc,
                   sent, resets, value, verdict>>
    /\ IF send_email_verification(email) # Pending
       THEN UNCHANGED <<otp_pc, otp_loc>>
       ELSE /\ otp_pc' = [otp_pc EXCEPT ![p] = "get"]
            /\ otp_loc' = [otp_loc EXCEPT ![p] =
                  [IdleOtpLoc EXCEPT !.handler = "send", !.email = email]]

\* auth.py 570-571 (305-306): get_otp_by_email
IssueGet(p) ==
    /\ otp_pc[p] = "get"
    /\ UNCHANGED <<users, tokens, now, nextJti, issued, family, pc, loc,
                   otps, nextOtp, created_at, complaints, admin_loc,
                   sent, resets, value, verdict>>
    /\ LET found == get_otp_by_email(otps, otp_loc[p].email) IN
       IF found = {}
       THEN /\ otp_pc' = [otp_pc EXCEPT ![p] = "create"]
            /\ UNCHANGED otp_loc
       ELSE /\ otp_pc' = [otp_pc EXCEPT ![p] = "delete"]
            /\ otp_loc' = [otp_loc EXCEPT
                              ![p].found = (CHOOSE row \in found : TRUE).id]

\* auth.py 573 (308): delete_otp, a commit of its own
IssueDelete(p) ==
    /\ otp_pc[p] = "delete"
    /\ otps' = delete_otp(otps, otp_loc[p].found)
    /\ otp_pc' = [otp_pc EXCEPT ![p] = "create"]
    /\ UNCHANGED <<users, tokens, now, nextJti, issued, family, pc, loc,
                   nextOtp, created_at, complaints, admin_loc,
                   sent, otp_loc, resets, value, verdict>>

\* auth.py 575-581 (309-317): generate_otp, hash, create_otp (a commit)
IssueCreate(p) ==
    /\ otp_pc[p] = "create"
    /\ nextOtp <= MaxOtp
    /\ nextOtp' = nextOtp + 1
    /\ UNCHANGED <<complaints, admin_loc>>
    /\ created_at' = IF issue_otp(p) # Pending THEN created_at
                      ELSE (nextOtp :> now) @@ created_at
    /\ UNCHANGED <<users, tokens, now, nextJti, issued, family, pc, loc,
                   sent, resets, value, verdict>>
    /\ IF issue_otp(p) # Pending
       THEN ReturnOtp(p) /\ UNCHANGED otps
       ELSE /\ otps' = create_otp(otps, nextOtp,
                                  get_password_hash(generate_otp(nextOtp)),
                                  otp_loc[p].email)
            /\ otp_pc' = [otp_pc EXCEPT ![p] = "send"]
            /\ otp_loc' = [otp_loc EXCEPT ![p].otp = generate_otp(nextOtp)]

\* auth.py 583-593 (319-329): send_email, and the answer
IssueSend(p) ==
    /\ otp_pc[p] = "send"
    /\ sent' = [sent EXCEPT ![otp_loc[p].email] = Append(@, otp_loc[p].otp)]
    /\ ReturnOtp(p)
    /\ UNCHANGED <<users, tokens, now, nextJti, issued, family, pc, loc,
                   otps, nextOtp, created_at, complaints, admin_loc,
                   resets, value, verdict>>

\* utils/messages.send_email: what smtp.send_message can raise
SmtpErrors == {"ValueError", "SMTPRecipientsRefused", "SMTPSenderRefused",
               "SMTPDataError", "SMTPException"}

\* utils/messages.send_email: the HTTPException a failed delivery is turned
\* into; neither handler catches it
send_email_fails(error) ==
    IF error = "SMTPException"
    THEN Outcome(500, "Internal server error when sending mail", "")
    ELSE Outcome(400, error, "")

\* a close that undoes what the request had committed (C21 is tested
\* against it)
close_rolling_back(table, written) == table \ written

\* dependencies.get_async_session, finally: db.close() releases the session;
\* what the request committed stays
close(table, written) == table

\* auth.py 585-592 (321-328): send_email raises, the exception leaves the
\* handler and the session is closed
IssueSendFails(p, error) ==
    /\ otp_pc[p] = "send"
    /\ send_email_fails(error).status >= 400
    /\ otps' = close(otps, {row \in otps :
                        row.otp = get_password_hash(otp_loc[p].otp)})
    /\ ReturnOtp(p)
    /\ UNCHANGED <<users, tokens, now, nextJti, issued, family, pc, loc,
                   nextOtp, created_at, complaints, admin_loc,
                   sent, resets, value, verdict>>

\* the worker dies between two awaits of the issuance
IssueCrash(p) ==
    /\ otp_pc[p] # "idle"
    /\ ReturnOtp(p)
    /\ UNCHANGED <<users, tokens, now, nextJti, issued, family, pc, loc,
                   otps, nextOtp, created_at, complaints, admin_loc,
                   sent, resets, value, verdict>>

\* verify-email without the early "Email already verified" answer (C14 is
\* tested against it)
verify_email_unguarded(email, otp, expired) ==
    LET found == get_user_by_email(email)
        rows == get_otp_by_email(otps, email)
    IN  IF found = {}
        THEN Outcome(404, "User not found, please sign up", "")
        ELSE IF rows = {}
        THEN Outcome(404, "OTP not found", "")
        ELSE IF ~\E row \in rows : verify_password(upper(otp), row.otp)
        THEN Outcome(400, "Invalid OTP", "")
        ELSE IF expired
        THEN Outcome(500, "MissingGreenlet", "")
        ELSE Outcome(202, "", CHOOSE u \in found : TRUE)

\* a verify-email that turns down a code older than otp_expiry_minutes
\* (C22 is tested against it)
verify_email_expiring(email, otp, expired) ==
    LET found == get_user_by_email(email)
        rows == get_otp_by_email(otps, email)
    IN  IF found = {}
        THEN Outcome(404, "User not found, please sign up", "")
        ELSE IF \E u \in found : users[u].is_email_verified
        THEN Outcome(400, "Email already verified", "")
        ELSE IF rows = {}
        THEN Outcome(404, "OTP not found", "")
        ELSE IF \E row \in rows : now - created_at[row.id] >= OtpTTL
        THEN Outcome(400, "OTP expired", "")
        ELSE IF ~\E row \in rows : verify_password(upper(otp), row.otp)
        THEN Outcome(400, "Invalid OTP", "")
        ELSE IF expired
        THEN Outcome(500, "MissingGreenlet", "")
        ELSE Outcome(202, "", CHOOSE u \in found : TRUE)

\* POST /api/auth/verify-email: what it answers.  delete_otp reads otp.id
\* after the commit that expired the row object; expired says whether that
\* read raises (the handler then answers 500 with the user already verified)
verify_email(email, otp, expired) ==
    LET found == get_user_by_email(email)
        rows == get_otp_by_email(otps, email)
    IN  IF found = {}
        THEN Outcome(404, "User not found, please sign up", "")
        ELSE IF \E u \in found : users[u].is_email_verified
        THEN Outcome(400, "Email already verified", "")
        ELSE IF rows = {}
        THEN Outcome(404, "OTP not found", "")
        ELSE IF ~\E row \in rows : verify_password(upper(otp), row.otp)
        THEN Outcome(400, "Invalid OTP", "")
        ELSE IF expired
        THEN Outcome(500, "MissingGreenlet", "")
        ELSE Outcome(202, "", CHOOSE u \in found : TRUE)

VerifyEmail(email, otp, expired) ==
    /\ users' = IF verify_email(email, otp, expired).status \in {202, 500}
                THEN verify_email_user(users, email) ELSE users
    /\ otps' = IF verify_email(email, otp, expired).status = 202
               THEN delete_otp(otps,
                      (CHOOSE row \in get_otp_by_email(otps, email) : TRUE).id)
               ELSE otps
    /\ UNCHANGED <<tokens, now, nextJti, issued, family, pc, loc,
                   nextOtp, created_at, complaints, admin_loc,
                   sent, otp_pc, otp_loc, resets, value, verdict>>

\* cli.create_admin_user has stored the admin; nobody has signed up yet
InitOtp ==
    /\ users = [u \in {"u1"} |-> User("alice", EmailOf(u), "p1", TRUE)]
    /\ tokens = <<>>
    /\ now = 0
    /\ nextJti = 1
    /\ issued = {}
    /\ family = <<>>
    /\ pc = [p \in Procs |-> "idle"]
    /\ loc = [p \in Procs |-> IdleLoc]
    /\ otps = {}
    /\ nextOtp = 1
    /\ created_at = <<>>
    /\ complaints = <<>>
    /\ admin_loc = [p \in Procs |-> IdleAdminLoc]
    /\ sent = [e \in Emails |-> <<>>]
    /\ otp_pc = [p \in Procs |-> "idle"]
    /\ otp_loc = [p \in Procs |-> IdleOtpLoc]
    /\ resets = {}
    /\ value = <<>>
    /\ verdict = Unchecked

\* Verification: registrations, OTP issuances of two workers, confirmations
NextOtp ==
    \/ \E p \in Procs, n \in Usernames, e \in Emails, w \in Passwords :
          Signup(p, n, e, w)
    \/ \E p \in Procs, e \in Emails \cup {"nobody"} :
          SendEmailVerification(p, e)
    \/ \E p \in Procs : IssueGet(p)
    \/ \E p \in Procs : IssueDelete(p)
    \/ \E p \in Procs : IssueCreate(p)
    \/ \E p \in Procs : IssueSend(p)
    \/ \E p \in Procs, x \in SmtpErrors : IssueSendFails(p, x)
    \/ \E p \in Procs : IssueCrash(p)
    \/ \E e \in Emails \cup {"nobody"}, c \in OtpInputs, x \in BOOLEAN :
          VerifyEmail(e, c, x)

SpecOtp == InitOtp /\ [][NextOtp]_vars

\* Verification: one client whose requests run one after the other, each to
\* its end
NextOtpSeq ==
    \/ \E n \in Usernames, e \in Emails, w \in Passwords :
          Signup("w1", n, e, w)
    \/ \E e \in Emails \cup {"nobody"} : SendEmailVerification("w1", e)
    \/ IssueGet("w1")
    \/ IssueDelete("w1")
    \/ IssueCreate("w1")
    \/ IssueSend("w1")
    \/ \E e \in Emails \cup {"nobody"}, c \in OtpInputs, x \in BOOLEAN :
          otp_pc["w1"] = "idle" /\ VerifyEmail(e, c, x)

\* the tables as the migrations create them, before the first user
InitEmpty ==
    /\ users = <<>>
    /\ tokens = <<>>
    /\ now = 0
    /\ nextJti = 1
    /\ issued = {}
    /\ family = <<>>
    /\ pc = [p \in Procs |-> "idle"]
    /\ loc = [p \in Procs |-> IdleLoc]
    /\ otps = {}
    /\ nextOtp = 1
    /\ created_at = <<>>
    /\ complaints = <<>>
    /\ admin_loc = [p \in Procs |-> IdleAdminLoc]
    /\ sent = [e \in Emails |-> <<>>]
    /\ otp_pc = [p \in Procs |-> "idle"]
    /\ otp_loc = [p \in Procs |-> IdleOtpLoc]
    /\ resets = {}
    /\ value = <<>>
    /\ verdict = Unchecked

SpecOtpSeq == InitEmpty /\ [][NextOtpSeq]_vars

\* Verification: the single client again, with the clock running between
\* its requests
NextOtpClock ==
    \/ Tick
    \/ NextOtpSeq

SpecOtpClock == InitEmpty /\ [][NextOtpClock]_vars

\* Verification: the admin's sessions while a registration goes through
NextSignup ==
    \/ \E e \in Emails, w \in Passwords : Login(e, w)
    \/ \E t \in Presentable : ResolvePrincipal(t)
    \/ \E t \in Presentable : Logout(t)
    \/ NextOtpSeq

SpecSignup == InitOtp /\ [][NextSignup]_vars

\* ------------------------------------ password reset: auth.py 420-521
\* the passwords typed into the reset form: "p1" fails the policy, "p2" and
\* "p3" pass it
ResetPasswords == {"p1", "p2", "p3"}

\* POST /api/auth/forgot-password: what it answers
forgot_password(email) ==
    IF get_user_by_email(email) = {}
    THEN Outcome(404, "User not found", "")
    ELSE Outcome(202, "Reset link sent to your email",
                 CHOOSE u \in get_user_by_email(email) : TRUE)

\* a forgot-password that stores a ledger row for the token it mails (C30
\* is tested against it)
ForgotPassword_storing(email) ==
    IF forgot_password(email).status # 202
    THEN UNCHANGED vars
    ELSE /\ nextJti <= MaxJti
         /\ resets' = resets \cup
               {create_token(users[forgot_password(email).user].username,
                             nextJti, ResetTTL)}
         /\ tokens' = create_access_token(tokens, nextJti, now + ResetTTL,
                                          forgot_password(email).user)
         /\ nextJti' = nextJti + 1
         /\ UNCHANGED <<users, now, issued, family, pc, loc,
                        otps, nextOtp, created_at, complaints, admin_loc,
                        sent, otp_pc, otp_loc, value, verdict>>

\* the reset token is created and mailed; add_token is never called
ForgotPassword(email) ==
    IF forgot_password(email).status # 202
    THEN UNCHANGED vars
    ELSE /\ nextJti <= MaxJti
         /\ resets' = resets \cup
               {create_token(users[forgot_password(email).user].username,
                             nextJti, ResetTTL)}
         /\ nextJti' = nextJti + 1
         /\ UNCHANGED <<users, tokens, now, issued, family, pc, loc,
                        otps, nextOtp, created_at, complaints, admin_loc,
                        sent, otp_pc, otp_loc, value, verdict>>

\* a reset that decodes the token before it looks at the password (C19 is
\* tested against it)
reset_password_decode_first(token, password) ==
    LET found == get_user_by_username(token.sub) IN
    IF ~verify_payload(token).ok
    THEN Outcome(401, "Could not validate credentials", "")
    ELSE IF password_validator(characters(password)) # Accepted
    THEN Outcome(422, password_validator(characters(password)), "")
    ELSE IF found = {}
    THEN Outcome(401, "Invalid token", "")
    ELSE IF Cardinality(found) > 1
    THEN Outcome(400, "MultipleResultsFound", "")
    ELSE IF \E u \in found : verify_password(password, users[u].hashed_password)
    THEN Outcome(400, "New password cannot be the same as the old password", "")
    ELSE Outcome(202, "", CHOOSE u \in found : TRUE)

\* a reset that wants a live ledger row for the token (C18 is tested
\* against it)
reset_password_ledgered(token, password) ==
    IF get_token_by_jti(token.jti) = {} \/ ~decodes(token)
    THEN Outcome(401, "Could not validate credentials", "")
    ELSE Outcome(202, "", CHOOSE u \in DOMAIN users : TRUE)

\* POST /api/auth/reset-password: what it answers, in the order of the code:
\* PasswordUpdate, verify_payload, get_user_by_username, verify_password
reset_password(token, password) ==
    LET found == get_user_by_username(token.sub) IN
    IF password_validator(characters(password)) # Accepted
    THEN Outcome(422, password_validator(characters(password)), "")
    ELSE IF ~verify_payload(token).ok
    THEN Outcome(401, "Could not validate credentials", "")
    ELSE IF found = {}
    THEN Outcome(401, "Invalid token", "")
    ELSE IF Cardinality(found) > 1
    THEN Outcome(400, "MultipleResultsFound", "")
    ELSE IF \E u \in found : verify_password(password, users[u].hashed_password)
    THEN Outcome(400, "New password cannot be the same as the old password", "")
    ELSE Outcome(202, "", CHOOSE u \in found : TRUE)

\* db/models.User.set_password and the commit: the users table afterwards
reset_password_writes(table, token, password) ==
    IF reset_password(token, password).status # 202
    THEN table
    ELSE [table EXCEPT ![reset_password(token, password).user].hashed_password
                           = get_password_hash(password)]

ResetPassword(token, password) ==
    /\ users' = reset_password_writes(users, token, password)
    /\ UNCHANGED <<tokens, now, nextJti, issued, family, pc, loc,
                   otps, nextOtp, created_at, complaints, admin_loc,
                   sent, otp_pc, otp_loc, resets, value, verdict>>

\* a set_password that also locks the account (C29 is tested against it)
set_password_locking(row, password) ==
    [row EXCEPT !.hashed_password = get_password_hash(password),
                !.is_active = FALSE]

\* db/models.User.set_password
set_password(row, password) ==
    [row EXCEPT !.hashed_password = get_password_hash(password)]

\* POST /api/auth/change-password: what it answers; the gate runs first, as
\* a dependency
change_password(token, new_password, old_password) ==
    LET user == get_current_active_user(token) IN
    IF user.status # 200 THEN user
    ELSE IF password_validator(characters(new_password)) # Accepted
    THEN Outcome(422, password_validator(characters(new_password)), "")
    ELSE IF ~verify_password(old_password, users[user.user].hashed_password)
    THEN Outcome(400, "Incorrect old password", "")
    ELSE IF new_password = old_password
    THEN Outcome(400, "New password cannot be the same as the old password", "")
    ELSE Outcome(200, "Password updated successfully", user.user)

\* auth.py 715-717: set_password and the commit: the users table afterwards
change_password_writes(table, token, new_password, old_password) ==
    IF change_password(token, new_password, old_password).status # 200
    THEN table
    ELSE [table EXCEPT
            ![change_password(token, new_password, old_password).user] =
                set_password(@, new_password)]

ChangePassword(token, new_password, old_password) ==
    /\ users' = change_password_writes(users, token, new_password,
                                       old_password)
    /\ tokens' = get_current_user_writes(tokens, token)
    /\ UNCHANGED <<now, nextJti, issued, family, pc, loc,
                   otps, nextOtp, created_at, complaints, admin_loc,
                   sent, otp_pc, otp_loc, resets, value, verdict>>

\* what can be put in the Authorization header of a reset: a mailed reset
\* token, any token of a session, or a forgery of either
ResetInputs == resets \cup {Forge(t) : t \in resets} \cup Presentable

\* Verification: sessions, their revocation, and password resets
NextReset ==
    \/ Tick
    \/ \E e \in RotationEmails, w \in ResetPasswords : Login(e, w)
    \/ \E t \in Presentable : Logout(t)
    \/ \E t \in Presentable : LogoutAll(t)
    \/ \E e \in RotationEmails : ForgotPassword(e)
    \/ \E t \in ResetInputs, w \in ResetPasswords : ResetPassword(t, w)
    \/ \E t \in Presentable, w \in ResetPasswords, o \in ResetPasswords :
          ChangePassword(t, w, o)
    \/ \E t \in resets : ResolvePrincipal(t)
    \/ \E t \in resets : Logout(t)
    \/ \E p \in Procs, t \in resets : RefreshStart(p, t)

SpecReset == Init /\ [][NextReset]_vars

\* --------------------------- complaints: models.py 184-211, admin.py 58-92
ComplaintIds == {"c1", "c2"}

\* enums.ComplaintStatus
ComplaintStatus_NEW == "new"
ComplaintStatus_PENDING == "pending"
ComplaintStatus_PAUSED == "paused"
ComplaintStatus_RESOLVED == "resolved"
ComplaintStatus ==
    {ComplaintStatus_NEW, ComplaintStatus_PENDING, ComplaintStatus_PAUSED,
     ComplaintStatus_RESOLVED}

ValueError == "ValueError"

\* db/models.Complaint.update_status on a loaded row: the status the object
\* then carries, or ValueError
update_status(current, status) ==
    IF current = ComplaintStatus_NEW /\ status = ComplaintStatus_PENDING
    THEN status
    ELSE IF current = ComplaintStatus_PENDING /\ status = ComplaintStatus_PAUSED
    THEN status
    ELSE IF current = ComplaintStatus_PAUSED /\ status = ComplaintStatus_PENDING
    THEN status
    ELSE IF current = ComplaintStatus_PENDING
            /\ status = ComplaintStatus_RESOLVED
    THEN status
    ELSE ValueError

\* routers/complaint.add_complaint: the row is inserted with the default
\* status
AddComplaint(c) ==
    /\ c \notin DOMAIN complaints
    /\ complaints' = (c :> ComplaintStatus_NEW) @@ complaints
    /\ UNCHANGED <<users, tokens, now, nextJti, issued, family, pc, loc,
                   otps, nextOtp, created_at, admin_loc, sent, otp_pc,
                   otp_loc, resets, value, verdict>>

\* POST /api/admin/complaints/{id}/status, what it answers at each step
update_complaint_status_load(c) ==
    IF c \notin DOMAIN complaints
    THEN Outcome(404, "Complaint not found", "")
    ELSE Pending

update_complaint_status(p, status) ==
    IF update_status(admin_loc[p].status, status) = ValueError
    THEN Outcome(400, "Invalid status transition", "")
    ELSE Outcome(200, "", admin_loc[p].complaint)

\* admin.py 83-87: get_complaint_by_id reads the row into the session
UpdateLoad(p, c) ==
    /\ admin_loc[p] = IdleAdminLoc
    /\ IF update_complaint_status_load(c) # Pending
       THEN UNCHANGED vars
       ELSE /\ admin_loc' = [admin_loc EXCEPT
                   ![p] = [complaint |-> c, status |-> complaints[c]]]
            /\ UNCHANGED <<users, tokens, now, nextJti, issued, family, pc,
                           loc, otps, nextOtp, created_at, complaints, sent,
                           otp_pc, otp_loc, resets, value, verdict>>

\* admin.py 88-92: update_status on the loaded object, then the commit
\* writes the object's status to the row (UPDATE ... WHERE id = :id)
UpdateCommit(p, status) ==
    /\ admin_loc[p] # IdleAdminLoc
    /\ complaints' =
          IF update_complaint_status(p, status).status = 200
          THEN [complaints EXCEPT ![admin_loc[p].complaint] =
                   update_status(admin_loc[p].status, status)]
          ELSE complaints
    /\ admin_loc' = [admin_loc EXCEPT ![p] = IdleAdminLoc]
    /\ UNCHANGED <<users, tokens, now, nextJti, issued, family, pc, loc,
                   otps, nextOtp, created_at, sent, otp_pc, otp_loc, resets,
                   value, verdict>>

\* Verification: complaints are filed and two administrators move them
NextComplaint ==
    \/ \E c \in ComplaintIds : AddComplaint(c)
    \/ \E p \in Procs, c \in ComplaintIds : UpdateLoad(p, c)
    \/ \E p \in Procs, status \in ComplaintStatus : UpdateCommit(p, status)

SpecComplaint == Init /\ [][NextComplaint]_vars

\* ---------------------------------------------------------------- Policy
\* PasswordUpdate(password=...): the validator applied to a typed password
PasswordUpdate(chars) ==
    /\ value' = chars
    /\ verdict' = password_validator(chars)
    /\ UNCHANGED <<users, tokens, now, nextJti, issued, family, pc, loc,
                   otps, nextOtp, created_at, complaints, admin_loc,
                   sent, otp_pc, otp_loc, resets>>

NextPolicy == \E chars \in Strings(MaxLen) : PasswordUpdate(chars)

SpecPolicy == Init /\ [][NextPolicy]_vars

\* ================================================================ claims
\* no refresh_access_token is between two of its steps
Quiescent == \A p \in Procs : pc[p] = "idle"

\* the REFRESH rows that are not revoked
LiveRefreshRows ==
    {r \in DOMAIN tokens : tokens[r].type = REFRESH /\ ~tokens[r].revoked}

\* the access jtis minted through refresh row r: by its login, then by rotation
Minted(r) == {a \in DOMAIN family : family[a] = r}

\* the access jti the login that created refresh row r stored with it
FirstAccess(r) == CHOOSE a \in Minted(r) : \A b \in Minted(r) : a <= b

\* the users a token's subject names
Owners(t) == {u \in DOMAIN users : users[u].username = t.sub}

\* t decodes and its row is stored, not revoked
LiveRow(t) ==
    decodes(t) /\ t.jti \in DOMAIN tokens /\ ~tokens[t.jti].revoked

\* ---------------------------------------------------------------- C1
\* C1: once every started login, refresh, logout, logout-all and purge has
\* completed, the access_jti of every non-revoked REFRESH row identifies a
\* stored row that is itself non-revoked.
C1_LinkedAccessLive ==
    Quiescent =>
        \A r \in LiveRefreshRows :
            /\ tokens[r].access_jti \in DOMAIN tokens
            /\ ~tokens[tokens[r].access_jti].revoked

\* ---------------------------------------------------------------- C2
\* C2: the three writes of a refresh take effect together: in no state, not
\* between two steps of a refresh and not after a worker died, does a
\* non-revoked REFRESH row point at a row that rotation has revoked while the
\* replacement link is not written.
C2_RotationAtomic ==
    \A r \in LiveRefreshRows :
        tokens[r].access_jti \in DOMAIN tokens =>
            tokens[tokens[r].access_jti].reason # "Refresh token used"

\* ---------------------------------------------------------------- C3
\* C3: a refresh with a decodable token whose REFRESH row is non-revoked and
\* was never used succeeds; the jti it mints differs from the one the row
\* linked; and once the row is relinked, the access token of the login fails
\* the gate with 401.
C3_FirstRefresh ==
    /\ Quiescent =>
           \A t \in issued :
               (LiveRow(t) /\ tokens[t.jti].type = REFRESH
                   /\ Cardinality(Minted(t.jti)) = 1)
               => refresh_access_token_alone(t).status = 201
    /\ \A p \in Procs :
           pc[p] \in {"old", "revoke", "insert", "relink"}
           => loc[p].new # loc[p].access_jti
    /\ \A r \in DOMAIN tokens, t \in issued :
           (tokens[r].type = REFRESH /\ Minted(r) # {}
               /\ t.jti = FirstAccess(r) /\ tokens[r].access_jti # t.jti)
           => get_current_active_user(t).status = 401

\* ---------------------------------------------------------------- C4
\* C4: rotation never revokes the refresh row, and a refresh with a decodable
\* token whose REFRESH row is non-revoked succeeds again after the row has
\* been used: every successive call succeeds.
C4_SuccessiveRefresh ==
    /\ \A r \in DOMAIN tokens :
           tokens[r].type = REFRESH => tokens[r].reason # "Refresh token used"
    /\ Quiescent =>
           \A t \in issued :
               (LiveRow(t) /\ tokens[t.jti].type = REFRESH
                   /\ Cardinality(Minted(t.jti)) > 1
                   /\ tokens[t.jti].access_jti # FirstAccess(t.jti))
               => refresh_access_token_alone(t).status = 201

\* ---------------------------------------------------------------- C5
\* C5: in every state, also while refreshes of one refresh token interleave,
\* at most one non-revoked ACCESS row was minted through a non-revoked REFRESH
\* row, and it is the row the REFRESH row's access_jti identifies.
C5_OneLiveAccess ==
    \A r \in LiveRefreshRows :
        {a \in Minted(r) \cap DOMAIN tokens : ~tokens[a].revoked}
            \subseteq {tokens[r].access_jti}

\* ---------------------------------------------------------------- C6
\* C6: a refresh with a decodable token whose REFRESH row is revoked is
\* answered 401 "Invalid token or token has been revoked" on every attempt,
\* and the attempt changes no row (nor anything else).
RevokedRefresh(t) ==
    /\ decodes(t)
    /\ t.jti \in DOMAIN tokens
    /\ tokens[t.jti].type = REFRESH
    /\ tokens[t.jti].revoked

C6_RevokedRefreshRejected ==
    /\ [](\A t \in Presentable :
            RevokedRefresh(t) =>
                /\ refresh_check_token(t) =
                     Outcome(401, "Invalid token or token has been revoked", "")
                /\ refresh_access_token_alone(t).status = 401)
    /\ [][\/ UNCHANGED vars
          \/ \A p \in Procs, t \in Presentable :
               (RevokedRefresh(t) /\ RefreshStart(p, t)) => UNCHANGED vars]_vars

\* a revoked REFRESH row whose token still decodes, met by an idle worker
C6_Witness ==
    \E t \in issued, p \in Procs :
        /\ RevokedRefresh(t)
        /\ pc[p] = "idle"
        /\ refresh_check_token(t).status = 401

\* ---------------------------------------------------------------- C7
\* C7: a login that answers 201 stores exactly two new rows owned by the
\* authenticated user, one ACCESS and one REFRESH, with distinct jtis, both
\* non-revoked, the REFRESH row's access_jti being the ACCESS row's jti, the
\* access expiry strictly before the refresh expiry, and the response carries
\* the tokens of these two rows.
C7_LoginPair ==
    [][nextJti' # nextJti =>
       \A e \in Emails \cup {"nobody"}, w \in Passwords :
         (login_for_access_token(e, w).status = 201 /\ Login(e, w)) =>
            LET response == login_for_access_token(e, w)
                a == response.access_token.jti
                f == response.refresh_token.jti
            IN  /\ a # f
                /\ {a, f} \cap DOMAIN tokens = {}
                /\ DOMAIN tokens' = DOMAIN tokens \cup {a, f}
                /\ \A j \in DOMAIN tokens : tokens'[j] = tokens[j]
                /\ tokens'[a].type = ACCESS
                /\ tokens'[f].type = REFRESH
                /\ tokens'[a].user_id = response.user
                /\ tokens'[f].user_id = response.user
                /\ users[response.user].email = e
                /\ ~tokens'[a].revoked
                /\ ~tokens'[f].revoked
                /\ tokens'[f].access_jti = a
                /\ tokens'[a].expires_at = response.access_token_expires_at
                /\ tokens'[f].expires_at = response.refresh_token_expires_at
                /\ tokens'[a].expires_at < tokens'[f].expires_at
                /\ response.access_token.exp < response.refresh_token.exp
       ]_vars

\* the pair of the latest login is in the ledger, and a login before it too
C7_Witness ==
    /\ nextJti > 3
    /\ \E a, f \in DOMAIN tokens :
          /\ f = nextJti - 1
          /\ tokens[f].type = REFRESH
          /\ tokens[f].access_jti = a
          /\ tokens[a].type = ACCESS
          /\ ~tokens[a].revoked
          /\ ~tokens[f].revoked
          /\ now > 0

\* ---------------------------------------------------------------- C8
\* C8: the gate answers with a user only when the token decodes, its row is
\* stored and not revoked, and the user its subject names exists, is active
\* and has a verified email; and a token whose row is revoked (or purged)
\* makes the gate fail in every later state.
C8_GateSound ==
    /\ [](\A t \in Presentable :
            get_current_active_user(t).status = 200 =>
                LET u == get_current_active_user(t).user IN
                /\ decodes(t)
                /\ t.jti \in DOMAIN tokens
                /\ ~tokens[t.jti].revoked
                /\ u \in DOMAIN users
                /\ users[u].username = t.sub
                /\ users[u].is_active
                /\ users[u].is_email_verified)
    /\ [][<<users, tokens, now>>' # <<users, tokens, now>> =>
          \A t \in Presentable :
            (t.jti \notin DOMAIN tokens \/ tokens[t.jti].revoked) =>
                /\ t.jti \notin DOMAIN tokens' \/ tokens'[t.jti].revoked
                /\ (get_current_active_user(t).status # 200)'
       ]_vars

\* one token passes the gate while another, revoked, is turned away
C8_Witness ==
    \E t1, t2 \in issued :
        /\ get_current_active_user(t1).status = 200
        /\ decodes(t2)
        /\ t2.jti \in DOMAIN tokens
        /\ tokens[t2.jti].revoked
        /\ Owners(t2) # {}
        /\ get_current_active_user(t2) =
              Outcome(401, "Token has been revoked", "")

\* ---------------------------------------------------------------- C9
\* the owner of t's subject, when exactly one user carries that username
Owner(t) == CHOOSE u \in Owners(t) : TRUE

C10_MissingOwnerRevokes ==
    \A t \in Presentable :
        (LiveRow(t) /\ Owners(t) = {}) =>
            /\ get_current_active_user(t).status = 401
            /\ get_current_user_writes(tokens, t)[t.jti].revoked
            /\ get_current_user_writes(tokens, t)[t.jti].reason # ""

\* --------------------------------------------------------------- C11
\* C11: no step of login, refresh, logout, logout-all, the gate or the purge
\* turns the revoked flag of a stored row from true back to false.
C11_RevocationMonotonic ==
    [][tokens' # tokens =>
         \A j \in DOMAIN tokens \cap DOMAIN tokens' :
             tokens[j].revoked => tokens'[j].revoked]_vars

\* a row revoked by logout was revoked once more by a later refresh, which
\* minted a new row for the same refresh token
C11_Witness ==
    \E j, k \in DOMAIN tokens :
        /\ j < k
        /\ j \in DOMAIN family /\ k \in DOMAIN family
        /\ family[j] = family[k]
        /\ tokens[j].revoked
        /\ tokens[j].reason = "Refresh token used"
        /\ tokens[k].revoked
        /\ tokens[k].reason = "User logged out"

\* --------------------------------------------------------------- C12
\* C12: a logout-all that answers 204 for user u leaves the same rows in the
\* ledger, revokes (with its reason) every row of u that was not revoked,
\* ACCESS and REFRESH alike, and leaves every row of another user and every
\* row of u that was already revoked as it was.
C12_LogoutAllFrame ==
    [][tokens' # tokens =>
         \A t \in Presentable :
            (logout_all(t).status = 204 /\ LogoutAll(t)) =>
               LET u == logout_all(t).user IN
               /\ DOMAIN tokens' = DOMAIN tokens
               /\ \A j \in DOMAIN tokens :
                     IF tokens[j].user_id = u /\ ~tokens[j].revoked
                     THEN /\ tokens'[j].revoked
                          /\ tokens'[j].reason =
                                "User logged out from all devices"
                          /\ tokens'[j].type = tokens[j].type
                          /\ tokens'[j].user_id = u
                          /\ tokens'[j].access_jti = tokens[j].access_jti
                          /\ tokens'[j].expires_at = tokens[j].expires_at
                     ELSE tokens'[j] = tokens[j]]_vars

\* after a logout-all: a row of the user it revoked, a row of the same user
\* that logout had revoked before, and the live rows of another user
C12_Witness ==
    \E i, j, k \in DOMAIN tokens :
        /\ tokens[i].user_id = tokens[j].user_id
        /\ tokens[i].reason = "User logged out from all devices"
        /\ tokens[j].reason = "User logged out"
        /\ tokens[k].user_id # tokens[i].user_id
        /\ ~tokens[k].revoked
        /\ \A m \in DOMAIN tokens :
              tokens[m].user_id = tokens[i].user_id => tokens[m].revoked

\* --------------------------------------------------------------- C13
\* the sign-in of an email no user has, and of a known email with a
\* password that is not the user's
UnknownIdentifier(e) == get_user_by_email(e) = {}

WrongPassword(e, w) ==
    /\ get_user_by_email(e) # {}
    /\ \A u \in get_user_by_email(e) :
          users[u].hashed_password # get_password_hash(w)

\* C13: login answers an unknown identifier and a wrong password with the
\* same response, 400 "Incorrect email or password", and neither call writes
\* a ledger row (or anything else).
C13_SameFailure ==
    /\ [](\A e \in RotationEmails, w \in Passwords :
            (UnknownIdentifier(e) \/ WrongPassword(e, w)) =>
                /\ login_for_access_token(e, w).status = 400
                /\ login_for_access_token(e, w) =
                      login_for_access_token("nobody", w))
    /\ [][\/ UNCHANGED vars
          \/ \A e \in RotationEmails, w \in Passwords :
               ((UnknownIdentifier(e) \/ WrongPassword(e, w))
                   /\ Login(e, w)) => UNCHANGED vars]_vars

\* rows are stored, and both failing sign-ins are on offer
C13_Witness ==
    /\ DOMAIN tokens # {}
    /\ \E e \in RotationEmails, w \in Passwords : WrongPassword(e, w)
    /\ \E e \in RotationEmails : UnknownIdentifier(e)
    /\ \A w \in Passwords :
          login_for_access_token("nobody", w).status = 400

\* --------------------------------------------------------------- C20
\* what the policy asks of a password, rule by rule
Whitespace == {" ", "\t", "\n", "\r"}

LongEnough(chars) == Len(chars) >= min_password_length

Conforms(chars) ==
    /\ LongEnough(chars)
    /\ any(isdigit, chars)
    /\ any(isupper, chars)
    /\ any(islower, chars)
    /\ any(isspecial, chars)
    /\ \A i \in 1..Len(chars) : chars[i] \notin Whitespace

\* C20: the validator accepts a password exactly when it has at least 8
\* characters, a digit, an uppercase letter, a lowercase letter, a special
\* character and no whitespace; and a password that breaks only the length
\* rule is rejected, under none of the other rules' messages.
C20_Policy ==
    verdict # Unchecked =>
        /\ verdict = Accepted <=> Conforms(value)
        /\ (~LongEnough(value)
              /\ any(isdigit, value) /\ any(isupper, value)
              /\ any(islower, value) /\ any(isspecial, value)
              /\ \A i \in 1..Len(value) : value[i] \notin Whitespace)
           => verdict \notin
                {Accepted,
                 "Password must contain at least one digit",
                 "Password must contain at least one uppercase letter",
                 "Password must contain at least one lowercase letter",
                 "Password must contain at least one special character",
                 "Password must not contain spaces"}

C16_OneRowPerEmail ==
    \A e \in Emails : Cardinality(get_otp_by_email(otps, e)) <= 1

\* C16 witness: two issuances for e2 are under way; one has inserted its row
\* and the other, having seen no row, is about to insert its own.
C16_Witness ==
    /\ otp_pc["w1"] = "send" /\ otp_loc["w1"].email = "e2"
    /\ otp_pc["w2"] = "create" /\ otp_loc["w2"].email = "e2"
    /\ otp_loc["w2"].found = NULL
    /\ get_otp_by_email(otps, "e2") # {}

\* the code typed is, once upper-cased, the one whose hash the row of the
\* email holds
Matches(e, c) ==
    \E row \in get_otp_by_email(otps, e) :
        row.otp = get_password_hash(upper(c))

\* C17: a user's verified flag goes from false to true only in a
\* verify-email call whose code matches the OTP row stored for the email at
\* that moment (a user just registered is unverified); a call with a
\* non-matching code against a stored row answers 400 "Invalid OTP" and
\* leaves the users and the OTP rows as they were.
C17_VerifiedOnlyByMatch ==
    /\ [](\A e \in Emails, c \in OtpInputs, x \in BOOLEAN :
            ( /\ \E u \in get_user_by_email(e) : ~users[u].is_email_verified
              /\ get_otp_by_email(otps, e) # {}
              /\ ~Matches(e, c) )
            => verify_email(e, c, x) = Outcome(400, "Invalid OTP", ""))
    /\ [][users' # users =>
            /\ \A u \in DOMAIN users' \ DOMAIN users :
                  ~users'[u].is_email_verified
            /\ \A u \in DOMAIN users :
                  (~users[u].is_email_verified /\ users'[u].is_email_verified)
                  => \E c \in OtpInputs, x \in BOOLEAN :
                        /\ VerifyEmail(users[u].email, c, x)
                        /\ Matches(users[u].email, c)]_vars
    /\ [][UNCHANGED vars \/
            \A e \in Emails, c \in OtpInputs, x \in BOOLEAN :
                (VerifyEmail(e, c, x) /\ ~Matches(e, c))
                => UNCHANGED <<users, otps>>]_vars

\* C17 witness: e2 has been verified with the code mailed to it, after a
\* second code had replaced the first: the first one was of no use.
C17_Witness ==
    /\ Len(sent["e2"]) = 2
    /\ \E u \in get_user_by_email("e2") : users[u].is_email_verified
    /\ get_otp_by_email(otps, "e2") = {}
    /\ otp_pc = [p \in Procs |-> "idle"]

\* the ledger rows of the user a token names, and whether all are revoked
RowsOf(username) ==
    {j \in DOMAIN tokens :
        tokens[j].user_id \in get_user_by_username(username)}

\* the password passes the policy and is not the current one of the user
Fresh(username, password) ==
    /\ password_validator(characters(password)) = Accepted
    /\ \A u \in get_user_by_username(username) :
          users[u].hashed_password # get_password_hash(password)

\* C18: a reset token mailed by forgot-password has no ledger row, and for
\* as long as it decodes, a reset with it and a new password that passes
\* the policy and differs from the current one is accepted (202), whatever
\* rows of the user have been revoked by logout or logout-all.
C18_ResetOutlivesRevocation ==
    \A r \in resets :
        /\ get_token_by_jti(r.jti) = {}
        /\ \A w \in ResetPasswords :
              (decodes(r) /\ Fresh(r.sub, w))
              => /\ reset_password(r, w).status = 202
                 /\ reset_password_writes(users, r, w)[
                        reset_password(r, w).user].hashed_password
                       = get_password_hash(w)

\* C18 witness: alice holds an unexpired reset token while every ledger row
\* of hers has been revoked by logout-all, and the reset is still accepted.
C18_Witness ==
    \E r \in resets :
        /\ decodes(r)
        /\ RowsOf(r.sub) # {}
        /\ \A j \in RowsOf(r.sub) :
              /\ tokens[j].revoked
              /\ tokens[j].reason = "User logged out from all devices"
        /\ reset_password(r, "p3").status = 202

\* C19 (as stated): the token is decoded before the password is looked at:
\* a reset with a token that does not decode and a password that fails the
\* policy answers 401, and no failure changes the stored hash.
C19_DecodeFirst ==
    \A t \in ResetInputs, w \in ResetPasswords :
        /\ (~decodes(t) /\ password_validator(characters(w)) # Accepted)
           => reset_password(t, w).status = 401
        /\ reset_password(t, w).status # 202
           => reset_password_writes(users, t, w) = users

\* C19 (amended): the password policy is applied first (422 with the name
\* of the rule), then the token is decoded (401), then the user is looked
\* up (401), then the new password is compared with the current one (400);
\* so a reset with a token that does not decode and a password that fails
\* the policy answers 422, and no failure changes the stored hash.
C19_PolicyFirst ==
    \A t \in ResetInputs, w \in ResetPasswords :
        /\ password_validator(characters(w)) # Accepted
           => reset_password(t, w)
                 = Outcome(422, password_validator(characters(w)), "")
        /\ (password_validator(characters(w)) = Accepted /\ ~decodes(t))
           => reset_password(t, w).status = 401
        /\ ( /\ password_validator(characters(w)) = Accepted
             /\ decodes(t)
             /\ get_user_by_username(t.sub) = {} )
           => reset_password(t, w) = Outcome(401, "Invalid token", "")
        /\ ( /\ password_validator(characters(w)) = Accepted
             /\ decodes(t)
             /\ Cardinality(get_user_by_username(t.sub)) = 1
             /\ ~Fresh(t.sub, w) )
           => reset_password(t, w) = Outcome(400,
                 "New password cannot be the same as the old password", "")
        /\ reset_password(t, w).status # 202
           => reset_password_writes(users, t, w) = users

\* C19 witness: a reset has already replaced alice's password by "p3", and
\* one of the mailed reset tokens has expired: presenting it with the weak
\* "p1" fails on both counts.
C19_Witness ==
    /\ \E u \in DOMAIN users :
          users[u].hashed_password = get_password_hash("p3")
    /\ \E t \in resets :
          /\ ~decodes(t)
          /\ password_validator(characters("p1")) # Accepted
          /\ reset_password(t, "p1").status = 422

\* C21: when the delivery of the mail fails in send-email-verification or
\* in a registration, the caller is answered an error (400 or 500 from
\* send_email), and what was committed before the attempt stays: the users
\* and the OTP rows are as they were when the delivery was attempted.
C21_DeliveryFailureKeepsState ==
    /\ [](\A x \in SmtpErrors : send_email_fails(x).status \in {400, 500})
    /\ [][otp_pc' # otp_pc =>
            \A p \in Procs, x \in SmtpErrors :
                IssueSendFails(p, x) => (users' = users /\ otps' = otps)]_vars

\* C21 witness: the registration of e2 has ended without its code being
\* mailed, and the user row and the OTP row it committed are there.
C21_Witness ==
    /\ otp_pc = [p \in Procs |-> "idle"]
    /\ nextOtp = 2
    /\ sent["e2"] = <<>>
    /\ get_user_by_email("e2") # {}
    /\ get_otp_by_email(otps, "e2") # {}

Allowed ==
    {<<ComplaintStatus_NEW, ComplaintStatus_PENDING>>,
     <<ComplaintStatus_PENDING, ComplaintStatus_PAUSED>>,
     <<ComplaintStatus_PAUSED, ComplaintStatus_PENDING>>,
     <<ComplaintStatus_PENDING, ComplaintStatus_RESOLVED>>}

\* C23: the stored status of a complaint changes only along NEW->PENDING,
\* PENDING->PAUSED, PAUSED->PENDING and PENDING->RESOLVED, so a RESOLVED
\* complaint stays RESOLVED and none returns to NEW; a request for any other
\* move, judged on the row the request loaded, is answered ValueError (400).
C23_StatusTransitions ==
    /\ [](\A current \in ComplaintStatus, status \in ComplaintStatus :
            <<current, status>> \notin Allowed
            => update_status(current, status) = ValueError)
    /\ [][complaints' # complaints =>
            \A c \in DOMAIN complaints :
                complaints'[c] # complaints[c]
                => <<complaints[c], complaints'[c]>> \in Allowed]_vars

\* the rows of user u that logout-all has revoked
EndedRows(u) ==
    {j \in DOMAIN tokens :
        /\ tokens[j].user_id = u
        /\ tokens[j].revoked
        /\ tokens[j].reason = "User logged out from all devices"}

\* a login of u made after its rows were ended: it has stored a REFRESH row
\* newer than all of them
LaterLogin(u) ==
    \E r \in DOMAIN tokens :
        /\ tokens[r].user_id = u
        /\ tokens[r].type = REFRESH
        /\ \A j \in EndedRows(u) : r > j

PairLoggedOut(t) ==
    /\ t.jti \in DOMAIN tokens
    /\ tokens[t.jti].type = REFRESH
    /\ tokens[t.jti].access_jti \in DOMAIN tokens
    /\ tokens[tokens[t.jti].access_jti].revoked
    /\ tokens[tokens[t.jti].access_jti].reason = "User logged out"

C26_TypesApart ==
    \A t \in Presentable :
        /\ get_current_user(t).status = 200
           => tokens[t.jti].type = ACCESS
        /\ refresh_access_token_alone(t).status = 201
           => tokens[t.jti].type = REFRESH
        /\ (t.jti \in DOMAIN tokens /\ tokens[t.jti].type = REFRESH)
           => get_current_user_writes(tokens, t) = tokens

\* C27: a reset accepts only the tokens forgot-password mailed: the string
\* of a session token (access or refresh, its row revoked or not) presented
\* as the reset token is rejected and the password hashes stay as they are.
C27_OnlyResetTokens ==
    \A t \in issued, w \in ResetPasswords :
        /\ reset_password(t, w).status # 202
        /\ reset_password_writes(users, t, w) = users

\* C28: whoever registers under the username of an existing user (with
\* another email), the gate keeps resolving the existing user's valid,
\* non-revoked access token to that user, the owner of the token's row.
C28_DuplicateUsernameHarmless ==
    \A t \in issued :
        ( /\ LiveRow(t)
          /\ tokens[t.jti].type = ACCESS
          /\ tokens[t.jti].user_id \in DOMAIN users
          /\ users[tokens[t.jti].user_id].username = t.sub
          /\ users[tokens[t.jti].user_id].is_email_verified )
        => get_current_user(t) = Outcome(200, "", tokens[t.jti].user_id)

\* C29: a password reset and a change of password write nothing but the
\* password hash of one user: every ledger row is as it was, and every
\* token issued before is answered by the gate and by refresh as it was
\* before the change.
C29_PasswordChangeFrame ==
    [][users' # users =>
        /\ tokens' = tokens
        /\ \A u \in DOMAIN users :
              users'[u] = [users[u] EXCEPT
                              !.hashed_password = users'[u].hashed_password]
        /\ \A t \in issued :
              /\ get_current_active_user(t)' = get_current_active_user(t)
              /\ refresh_access_token_alone(t)'
                    = refresh_access_token_alone(t)]_vars

\* C29 witness: alice signed in once, then changed her password to "p3";
\* her access token still passes the gate and her refresh token is still
\* accepted.
C29_Witness ==
    /\ nextJti = 3
    /\ resets = {}
    /\ users["u1"].hashed_password = get_password_hash("p3")
    /\ \E t \in issued : get_current_active_user(t).status = 200
    /\ \E t \in issued : refresh_access_token_alone(t).status = 201

\* C30: a reset token is never a session credential: its jti has no ledger
\* row, so the gate, refresh, logout and logout-all all answer it 401, and
\* none of them writes anything when it is presented.
C30_ResetTokenNoSession ==
    /\ [](\A r \in resets :
            /\ get_token_by_jti(r.jti) = {}
            /\ get_current_user(r).status = 401
            /\ get_current_active_user(r).status = 401
            /\ refresh_check_token(r).status = 401
            /\ refresh_access_token_alone(r).status = 401
            /\ logout(r).status = 401
            /\ logout_all(r).status = 401
            /\ get_current_user_writes(tokens, r) = tokens)
    /\ [][UNCHANGED vars \/
            \A r \in resets :
                ( \/ ResolvePrincipal(r)
                  \/ Logout(r)
                  \/ LogoutAll(r)
                  \/ \E p \in Procs : RefreshStart(p, r) )
                => UNCHANGED vars]_vars

\* C30 witness: a reset token that still decodes is in alice's mailbox
\* while she has a live session, and the gate turns the reset token down.
C30_Witness ==
    \E r \in resets :
        /\ decodes(r)
        /\ \E t \in issued : get_current_user(t).status = 200
        /\ get_current_user(r) = Outcome(401, "Invalid token", "")
        /\ logout(r) = Outcome(401, "Invalid token", "")
        /\ refresh_check_token(r).status = 401

====
